---- MODULE Spec2Model ----
(***************************************************************************)
(* Particle Morph: the shape generator (utils/shapes), the hand tracker    *)
(* (services/handTracking), the App's React state and the ParticleCanvas   *)
(* animation loop.                                                         *)
(*                                                                         *)
(* Numbers.  A JavaScript number is modelled as a fixed-point value: the   *)
(* integer n stands for n/100 (so 2500 is 25.0 and 96 is 0.96).  Sums are  *)
(* exact; a product or quotient is rounded to the nearest 1/100, as an     *)
(* IEEE operation rounds to the nearest representable value.  A product    *)
(* that is only compared with another product or fed to Math.sqrt (the     *)
(* squared distances) is kept unrounded, in units of 1/10000: in IEEE      *)
(* arithmetic the square of a small non-zero difference is not zero.  NaN  *)
(* is one extra value that every operation propagates and every comparison *)
(* rejects.  0/0 is NaN; x/0 with x # 0 (an infinity) cannot arise, since  *)
(* the only divisor that can be zero is a distance whose numerator is then *)
(* zero too.                                                               *)
(***************************************************************************)
EXTENDS Integers, Sequences, FiniteSets, TLC

VARIABLES
    currentShape,     \* App: useState<ShapeType>
    handData,         \* App: useState<HandData>, the value of the last setHandData
    settings,         \* App: useState<ParticleSettings>
    props,            \* ParticleCanvas: the props of the last committed render
    mounted,          \* ParticleCanvas: the mount effect has run, the frame loop is registered
    handDataRef,      \* ParticleCanvas: handDataRef.current
    settingsRef,      \* ParticleCanvas: settingsRef.current
    targetPositions,  \* ParticleCanvas: targetPositionsRef.current
    positions,        \* ParticleCanvas: geometry.attributes.position.array
    velocities,       \* ParticleCanvas: velocitiesRef.current
    drawRange,        \* ParticleCanvas: geometry.drawRange.count
    frame,            \* HandTracker: the detector result of the last onResults call
    raised,           \* HandTracker: the last onResults call threw
    lastStep,         \* what the last animation frame read when it started
    nFrames,          \* animation frames run so far
    nHand,            \* detector results received so far
    nUi,              \* control-panel events so far
    probe,            \* the call under test of a function-level specification
    requestRef,       \* ParticleCanvas: the animation frame request of requestRef.current
    camera,           \* HandTracker: this.camera, the MediaPipe camera loop
    detector,         \* HandTracker: this.hands, the MediaPipe detector
    inFlight,         \* video frames sent to the detector whose result is outstanding
    nSent             \* video frames sent to the detector so far

vars == <<currentShape, handData, settings, props, mounted, handDataRef, settingsRef,
          targetPositions, positions, velocities, drawRange, frame, raised, lastStep,
          nFrames, nHand, nUi, probe, requestRef, camera, detector, inFlight, nSent>>

\* The frame request, the camera loop and the detector.
lifecycle == <<requestRef, camera, detector, inFlight, nSent>>

(***************************************************************************)
(* Bounds of the model.                                                    *)
(***************************************************************************)
\* The capacity of the particle buffers (40000 in the program).
MAX_PARTICLES == 2
\* Animation frames per run of the application.
MaxFrames == 3
\* Detector results per run.
MaxHandFrames == 2
\* Control-panel events (shape buttons, sliders) per run.
MaxUiEvents == 2
\* The x coordinates of the classifier's inputs are 0 .. LmMax steps of 0.2.
LmMax == 1
\* The largest factor by which a landmark set is scaled around the wrist.
MaxScale == 3
\* Frames of a free run of the simulator (no hand, fixed targets).
MaxFreeFrames == 10
\* Video frames the camera loop hands to its onFrame callback per run.
MaxSends == 2

(***************************************************************************)
(* Arithmetic.                                                             *)
(***************************************************************************)
NaN == -2000000000

IsFinite(a) == a # NaN

\* a / b for b > 0, rounded to the nearest integer (halves away from zero).
RoundDiv(a, b) ==
    IF a >= 0 THEN (2 * a + b) \div (2 * b) ELSE -((2 * (-a) + b) \div (2 * b))

FAdd(a, b) == IF a = NaN \/ b = NaN THEN NaN ELSE a + b
FSub(a, b) == IF a = NaN \/ b = NaN THEN NaN ELSE a - b
FNeg(a) == IF a = NaN THEN NaN ELSE -a
FMul(a, b) == IF a = NaN \/ b = NaN THEN NaN ELSE RoundDiv(a * b, 100)
FDiv(a, b) ==
    IF a = NaN \/ b = NaN \/ b = 0 THEN NaN
    ELSE IF b > 0 THEN RoundDiv(a * 100, b) ELSE -RoundDiv(a * 100, -b)
FLt(a, b) == a # NaN /\ b # NaN /\ a < b
FEq(a, b) == a # NaN /\ b # NaN /\ a = b

\* An unrounded product, in units of 1/10000.
WMul(a, b) == IF a = NaN \/ b = NaN THEN NaN ELSE a * b

RECURSIVE SqrtSearch(_, _, _)
SqrtSearch(n, lo, hi) ==
    \* the largest r in lo .. hi with r * r <= n
    IF lo >= hi THEN lo
    ELSE LET mid == (lo + hi + 1) \div 2
         IN IF mid * mid <= n THEN SqrtSearch(n, mid, hi) ELSE SqrtSearch(n, lo, mid - 1)

\* The integer nearest to the square root of n >= 0.
ISqrt(n) ==
    LET r == SqrtSearch(n, 0, 46000)
    IN IF n - r * r > r THEN r + 1 ELSE r

\* Math.sqrt of an unrounded product: units of 1/10000 in, 1/100 out.
WSqrt(w) == IF w = NaN \/ w < 0 THEN NaN ELSE ISqrt(w)
\* Math.sqrt of a fixed-point value.
FSqrt(a) == IF a = NaN \/ a < 0 THEN NaN ELSE ISqrt(a * 100)

\* cos and sin of 2 * PI * u, u a fixed-point number of turns that is a multiple of 1/4.
CosTurn(u) ==
    LET q == (u % 100) \div 25 IN IF q = 0 THEN 100 ELSE IF q = 2 THEN -100 ELSE 0
SinTurn(u) ==
    LET q == (u % 100) \div 25 IN IF q = 1 THEN 100 ELSE IF q = 3 THEN -100 ELSE 0

\* cos and sin of a small angle a in radians (their Taylor polynomials).
CosRad(a) == 100 - RoundDiv(FMul(a, a), 2) + RoundDiv(FMul(FMul(a, a), FMul(a, a)), 24)
SinRad(a) == a - RoundDiv(FMul(FMul(a, a), a), 6)

Vec(x, y, z) == [x |-> x, y |-> y, z |-> z]
ZeroVec == Vec(0, 0, 0)
Slots == 0 .. (MAX_PARTICLES - 1)

(***************************************************************************)
(* utils/shapes                                                            *)
(***************************************************************************)
ShapeTypes == {"Sphere", "Cube", "Heart", "Spiral"}

\* The values Math.random() returns in the model: 0, 0.25 and 0.5.
RandomSamples == {0, 25, 50}
\* The three successive Math.random() results a particle's point may consume.
Draws == [1 .. 3 -> RandomSamples]
\* The draws of the application's runs: the first is 0 or 0.5, the others are 0.5.
AppDraws == {d \in Draws : d[1] \in {0, 50} /\ d[2] = 50 /\ d[3] = 50}

Sentinel == 999900
SentinelVec == Vec(Sentinel, Sentinel, Sentinel)

getPointOnSphereSurface(r, u, v) ==
    \* theta = 2 PI u; phi = acos(2v - 1), so cos(phi) = 2v - 1 and sin(phi) >= 0
    LET cosPhi == FSub(FMul(200, v), 100)
        sinPhi == FSqrt(FSub(100, FMul(cosPhi, cosPhi)))
    IN Vec(FMul(FMul(r, sinPhi), CosTurn(u)),
           FMul(FMul(r, sinPhi), SinTurn(u)),
           FMul(r, cosPhi))

CubePoint(d) ==
    LET size == 3500
    IN Vec(FMul(FSub(d[1], 50), size), FMul(FSub(d[2], 50), size), FMul(FSub(d[3], 50), size))

HeartPoint(d) ==
    LET t == d[1]
        scale == 120
        vol == FSqrt(d[2])
        sin3 == FMul(FMul(SinTurn(t), SinTurn(t)), SinTurn(t))
        curve == FSub(FSub(FSub(FMul(1300, CosTurn(t)), FMul(500, CosTurn(2 * t))),
                           FMul(200, CosTurn(3 * t))), CosTurn(4 * t))
    IN Vec(FMul(FMul(FMul(scale, 1600), sin3), vol),
           FAdd(FMul(FMul(scale, curve), vol), 500),
           FMul(FMul(FSub(d[3], 50), 1000), vol))

SpiralPoint(i, count) ==
    \* the three-arm layout computed first is overwritten by the helix
    Vec(FMul(2000, CosRad(FMul(i * 100, 5))),
        FSub(FMul(FDiv(i * 100, count * 100), 6000), 3000),
        FMul(2000, SinRad(FMul(i * 100, 5))))

ShapePoint(type, i, count, d) ==
    CASE type = "Sphere" -> getPointOnSphereSurface(2500, d[1], d[2])
      [] type = "Cube"   -> CubePoint(d)
      [] type = "Heart"  -> HeartPoint(d)
      [] type = "Spiral" -> SpiralPoint(i, count)
      [] OTHER           -> ZeroVec

\* The fill loop starts one slot late.
generateShapePositions_FillLate(type, count, rnd) ==
    [i \in Slots |->
        IF i < count THEN ShapePoint(type, i, count, rnd[i])
        ELSE IF i >= count + 1 THEN SentinelVec
        ELSE ZeroVec]

\* rnd[i] are the Math.random() results drawn for slot i.
generateShapePositions(type, count, rnd) ==
    [i \in Slots |->
        IF i < count THEN ShapePoint(type, i, count, rnd[i])
        ELSE SentinelVec]

(***************************************************************************)
(* services/handTracking                                                   *)
(***************************************************************************)
NoHand == [x |-> 50, y |-> 50, gesture |-> "None", detected |-> FALSE]

Pt(x, y) == [x |-> x, y |-> y]

\* A detector result: results.multiHandLandmarks is absent (hasList = FALSE) or a
\* list of hands, each a list of landmark points.
Results(hasList, hands) == [hasList |-> hasList, hands |-> hands]
NoList == Results(FALSE, <<>>)
EmptyList == Results(TRUE, <<>>)

\* landmarks[i] of the source (0-based); an index past the end reads undefined.
Defined(landmarks, i) == i < Len(landmarks)
Lm(landmarks, i) == landmarks[i + 1]

Fingers == {8, 12, 16, 20}

\* The fingertip test reversed: a far fingertip counts as folded.
detectGesture_FarIsFolded(landmarks) ==
    IF \E i \in {0, 9} \cup Fingers : ~Defined(landmarks, i) THEN "TypeError"
    ELSE
    LET wrist == Lm(landmarks, 0)
        refDx == FSub(Lm(landmarks, 0).x, Lm(landmarks, 9).x)
        refDy == FSub(Lm(landmarks, 0).y, Lm(landmarks, 9).y)
        refDistSq == WMul(refDx, refDx) + WMul(refDy, refDy)
        Folded(tipIdx) ==
            LET dx == FSub(Lm(landmarks, tipIdx).x, wrist.x)
                dy == FSub(Lm(landmarks, tipIdx).y, wrist.y)
                distSq == WMul(dx, dx) + WMul(dy, dy)
            IN distSq * 100 > refDistSq * 150
        foldedCount == Cardinality({tipIdx \in Fingers : Folded(tipIdx)})
    IN IF foldedCount >= 3 THEN "Fist" ELSE "Open"

\* The distance measured in absolute units instead of palm lengths.
detectGesture_Absolute(landmarks) ==
    IF \E i \in {0, 9} \cup Fingers : ~Defined(landmarks, i) THEN "TypeError"
    ELSE
    LET wrist == Lm(landmarks, 0)
        Folded(tipIdx) ==
            LET dx == FSub(Lm(landmarks, tipIdx).x, wrist.x)
                dy == FSub(Lm(landmarks, tipIdx).y, wrist.y)
                distSq == WMul(dx, dx) + WMul(dy, dy)
            IN distSq * 100 < 600 * 100
        foldedCount == Cardinality({tipIdx \in Fingers : Folded(tipIdx)})
    IN IF foldedCount >= 3 THEN "Fist" ELSE "Open"

\* The gesture, or "TypeError" when a landmark the function reads is undefined
\* (landmarks[i].x on undefined throws).
detectGesture(landmarks) ==
    IF \E i \in {0, 9} \cup Fingers : ~Defined(landmarks, i) THEN "TypeError"
    ELSE
    LET wrist == Lm(landmarks, 0)
        refDx == FSub(Lm(landmarks, 0).x, Lm(landmarks, 9).x)
        refDy == FSub(Lm(landmarks, 0).y, Lm(landmarks, 9).y)
        refDistSq == WMul(refDx, refDx) + WMul(refDy, refDy)
        Folded(tipIdx) ==
            LET dx == FSub(Lm(landmarks, tipIdx).x, wrist.x)
                dy == FSub(Lm(landmarks, tipIdx).y, wrist.y)
                distSq == WMul(dx, dx) + WMul(dy, dy)
            IN \* distSq < refDistSq * 1.5
               distSq * 100 < refDistSq * 150
        foldedCount == Cardinality({tipIdx \in Fingers : Folded(tipIdx)})
    IN IF foldedCount >= 3 THEN "Fist" ELSE "Open"

\* What one onResults call does: it throws, or it calls onHandUpdate(data).
onResults(results) ==
    IF results.hasList /\ Len(results.hands) > 0 THEN
        LET landmarks == results.hands[1]
            gesture == detectGesture(landmarks)
        IN IF gesture = "TypeError" THEN [threw |-> TRUE, data |-> NoHand]
           ELSE LET palmX == FDiv(FAdd(Lm(landmarks, 0).x, Lm(landmarks, 9).x), 200)
                    palmY == FDiv(FAdd(Lm(landmarks, 0).y, Lm(landmarks, 9).y), 200)
                IN [threw |-> FALSE,
                    data |-> [x |-> FSub(100, palmX), y |-> palmY,
                              gesture |-> gesture, detected |-> TRUE]]
    ELSE [threw |-> FALSE, data |-> NoHand]

\* A hand of 21 landmarks: the wrist (0), the middle-finger knuckle (9) and the four
\* fingertips (8, 12, 16, 20) as given, every other landmark at the wrist.
Landmarks(wrist, knuckle, t8, t12, t16, t20) ==
    [i \in 1 .. 21 |->
        CASE i = 10 -> knuckle
          [] i = 9  -> t8
          [] i = 13 -> t12
          [] i = 17 -> t16
          [] i = 21 -> t20
          [] OTHER  -> wrist]

OneHand(landmarks) == Results(TRUE, <<landmarks>>)

\* An open hand whose palm maps to HandData (0.75, 0.5), a fist whose palm maps to
\* (0.68, 0.5): the detector results of the application's runs, with no hand at all.
OpenHandFrame ==
    OneHand(Landmarks(Pt(25, 60), Pt(25, 40), Pt(25, 0), Pt(25, 0), Pt(25, 0), Pt(25, 0)))
FistFrame ==
    OneHand(Landmarks(Pt(32, 60), Pt(32, 40), Pt(32, 50), Pt(32, 50), Pt(32, 50), Pt(32, 50)))
SampleResults == {NoList, OpenHandFrame, FistFrame}

(***************************************************************************)
(* App: the React state and the control panel                              *)
(***************************************************************************)
\* particleCount 20000 of 40000 is half the capacity.
DefaultSettings ==
    [particleCount |-> (MAX_PARTICLES + 1) \div 2, forceStrength |-> 250,
     interactionRadius |-> 2500, damping |-> 96, returnSpeed |-> 4]

\* The slider positions of the model: every particle count from the smallest to the
\* capacity, two force strengths, two interaction radii.
SliderValues ==
    [particleCount |-> 1 .. MAX_PARTICLES, forceStrength |-> {250, 500},
     interactionRadius |-> {2500, 5000}]

AppState == [shape |-> currentShape, settings |-> settings, handData |-> handData]

(***************************************************************************)
(* components/ParticleCanvas                                               *)
(***************************************************************************)
\* height = 2 tan(75 deg / 2) 60 = 92.07; width = height * aspect, 100.0 in the
\* model's window.
ViewHeight == 9207
ViewWidth == 10000

ZeroBuffer == [i \in Slots |-> ZeroVec]

VAdd(a, b) == Vec(FAdd(a.x, b.x), FAdd(a.y, b.y), FAdd(a.z, b.z))
VSub(a, b) == Vec(FSub(a.x, b.x), FSub(a.y, b.y), FSub(a.z, b.z))
VScale(a, k) == Vec(FMul(a.x, k), FMul(a.y, k), FMul(a.z, k))
VFinite(a) == IsFinite(a.x) /\ IsFinite(a.y) /\ IsFinite(a.z)
WAdd(a, b) == IF a = NaN \/ b = NaN THEN NaN ELSE a + b
WLt(a, b) == a # NaN /\ b # NaN /\ a < b

HandPoint(hand) ==
    Vec(FMul(FSub(hand.x, 50), ViewWidth), FNeg(FMul(FSub(hand.y, 50), ViewHeight)), 0)

\* The velocity the hand adds to a particle at p.
HandForce(p, hand, s) ==
    IF ~hand.detected THEN ZeroVec
    ELSE
    LET d == VSub(p, HandPoint(hand))
        distSq == WAdd(WAdd(WMul(d.x, d.x), WMul(d.y, d.y)), WMul(d.z, d.z))
    IN IF ~WLt(distSq, WMul(s.interactionRadius, s.interactionRadius)) THEN ZeroVec
       ELSE
       LET dist == WSqrt(distSq)
           n == Vec(FDiv(d.x, dist), FDiv(d.y, dist), FDiv(d.z, dist))
           factor == FSub(100, FDiv(dist, s.interactionRadius))
       IN IF hand.gesture = "Open"
          THEN VScale(n, FMul(FMul(s.forceStrength, factor), 200))
          ELSE IF hand.gesture = "Fist"
          THEN VScale(n, FMul(FMul(FNeg(s.forceStrength), factor), 300))
          ELSE ZeroVec

\* The spring pushes away from the target.
StepParticle_SpringAway(p, v, t, hand, s) ==
    LET v1 == VAdd(v, VScale(VSub(p, t), s.returnSpeed))
        v2 == VAdd(v1, HandForce(p, hand, s))
        v3 == VScale(v2, s.damping)
    IN [p |-> VAdd(p, v3), v |-> v3]

\* One iteration of the loop body of animate: the new position and velocity.
StepParticle(p, v, t, hand, s) ==
    LET v1 == VAdd(v, VScale(VSub(t, p), s.returnSpeed))
        v2 == VAdd(v1, HandForce(p, hand, s))
        v3 == VScale(v2, s.damping)
    IN [p |-> VAdd(p, v3), v |-> v3]

\* The loop runs one slot too far.
StepAll_OneTooFar(pos, vel, targets, hand, s) ==
    LET activeCount == s.particleCount
        r == [i \in Slots |-> StepParticle(pos[i], vel[i], targets[i], hand, s)]
    IN [positions  |-> [i \in Slots |-> IF i <= activeCount THEN r[i].p ELSE pos[i]],
        velocities |-> [i \in Slots |-> IF i <= activeCount THEN r[i].v ELSE vel[i]]]

\* The loop of animate over the active particles.
StepAll(pos, vel, targets, hand, s) ==
    LET activeCount == s.particleCount
        r == [i \in Slots |-> StepParticle(pos[i], vel[i], targets[i], hand, s)]
    IN [positions  |-> [i \in Slots |-> IF i < activeCount THEN r[i].p ELSE pos[i]],
        velocities |-> [i \in Slots |-> IF i < activeCount THEN r[i].v ELSE vel[i]]]

NoStep == [hand |-> NoHand, delivered |-> NoHand, rendered |-> NoHand,
           settings |-> DefaultSettings, targets |-> ZeroBuffer, drawRange |-> 0]

\* One animation frame: animate reads the two refs, steps the active particles and
\* renders.
AnimateFrame ==
    LET currentSettings == settingsRef
        currentHand == handDataRef
        r == StepAll(positions, velocities, targetPositions, currentHand, currentSettings)
    IN /\ positions' = r.positions
       /\ velocities' = r.velocities
       /\ lastStep' = [hand |-> currentHand, delivered |-> handData,
                       rendered |-> props.handData, settings |-> currentSettings,
                       targets |-> targetPositions, drawRange |-> drawRange]
       /\ nFrames' = nFrames + 1
       /\ UNCHANGED <<currentShape, handData, settings, props, mounted, handDataRef,
                      settingsRef, targetPositions, drawRange, frame, raised, nHand, nUi,
                      probe, lifecycle>>

\* useEffect [handData]: the new handDataRef.current.
HandDataEffect(current, prop) == prop

\* The effect publishes the settings but always draws the whole buffer.
SettingsEffect_DrawAll(prop) == [ref |-> prop, drawRange |-> MAX_PARTICLES]

\* useEffect [settings]: the new settingsRef.current and draw range.
SettingsEffect(prop) == [ref |-> prop, drawRange |-> prop.particleCount]

\* useEffect [shape], with the geometry present: the new targets, and the positions,
\* which are overwritten by the targets when the first point is (0, 0, 0).
ShapeEffect(shape, pos, rnd) ==
    LET newTargets == generateShapePositions(shape, MAX_PARTICLES, rnd)
    IN [targets |-> newTargets,
        positions |-> IF FEq(pos[0].x, 0) /\ FEq(pos[0].y, 0) /\ FEq(pos[0].z, 0)
                      THEN newTargets ELSE pos]

(***************************************************************************)
(* The application: mount, control panel, detector results, React commits, *)
(* animation frames.                                                       *)
(***************************************************************************)
NoProbe == [fn |-> "none", type |-> "Sphere", count |-> 0, buffer |-> ZeroBuffer,
            scale |-> 0, base |-> "None"]

\* The first render, before any effect has run.
Init ==
    /\ currentShape = "Sphere"
    /\ handData = NoHand
    /\ settings = DefaultSettings
    /\ props = [shape |-> "Sphere", settings |-> DefaultSettings, handData |-> NoHand]
    /\ mounted = FALSE
    /\ handDataRef = NoHand
    /\ settingsRef = DefaultSettings
    /\ targetPositions = ZeroBuffer
    /\ positions = ZeroBuffer
    /\ velocities = ZeroBuffer
    /\ drawRange = 0
    /\ frame = NoList
    /\ raised = FALSE
    /\ lastStep = NoStep
    /\ nFrames = 0
    /\ nHand = 0
    /\ nUi = 0
    /\ probe = NoProbe
    /\ requestRef = "none"
    /\ camera = "none"
    /\ detector = "none"
    /\ inFlight = 0
    /\ nSent = 0

\* The effects of the first render, in order.  The shape effect finds no geometry
\* yet and only sets targets, which the mount effect replaces: it creates the
\* geometry, generates the initial targets, copies them into the positions, sets the
\* draw range and requests the first animation frame.  The App's effect then starts
\* the tracker.
Mount ==
    /\ ~mounted
    /\ \E rnd \in [Slots -> AppDraws] :
        LET initialTargets == generateShapePositions(props.shape, MAX_PARTICLES, rnd)
        IN /\ targetPositions' = initialTargets
           /\ positions' = initialTargets
    /\ handDataRef' = HandDataEffect(handDataRef, props.handData)
    /\ settingsRef' = props.settings
    /\ drawRange' = props.settings.particleCount
    /\ mounted' = TRUE
    /\ requestRef' = "pending"
    /\ detector' = "open"
    /\ camera' = "started"
    /\ UNCHANGED <<currentShape, handData, settings, props, velocities, frame, raised,
                   lastStep, nFrames, nHand, nUi, probe, inFlight, nSent>>

\* A shape button: setCurrentShape(shape).  Clicking the current shape changes nothing.
SelectShape ==
    /\ mounted
    /\ nUi < MaxUiEvents
    /\ \E shape \in ShapeTypes \ {currentShape} : currentShape' = shape
    /\ nUi' = nUi + 1
    /\ UNCHANGED <<handData, settings, props, mounted, handDataRef, settingsRef,
                   targetPositions, positions, velocities, drawRange, frame, raised,
                   lastStep, nFrames, nHand, probe, lifecycle>>

\* A slider: setSettings(s => ({...s, field: value})).
ChangeSettings ==
    /\ mounted
    /\ nUi < MaxUiEvents
    /\ \E field \in DOMAIN SliderValues :
         \E value \in SliderValues[field] \ {settings[field]} :
            settings' = [settings EXCEPT ![field] = value]
    /\ nUi' = nUi + 1
    /\ UNCHANGED <<currentShape, handData, props, mounted, handDataRef, settingsRef,
                   targetPositions, positions, velocities, drawRange, frame, raised,
                   lastStep, nFrames, nHand, probe, lifecycle>>

\* HandTracker.onResults(results) with the App's callback, setHandData.
HandleResults(results) ==
    LET r == onResults(results)
    IN /\ frame' = results
       /\ raised' = r.threw
       /\ handData' = IF r.threw THEN handData ELSE r.data
       /\ nHand' = nHand + 1
       /\ UNCHANGED <<currentShape, settings, props, mounted, handDataRef, settingsRef,
                      targetPositions, positions, velocities, drawRange, lastStep,
                      nFrames, nUi>>

\* The detector delivers a result.
OnResults ==
    /\ mounted
    /\ nHand < MaxHandFrames
    /\ \E results \in SampleResults : HandleResults(results)
    /\ UNCHANGED <<probe, lifecycle>>

\* React renders ParticleCanvas with the App's state and runs, in order, the effects
\* whose dependency changed: [handData], [settings], [shape].
Commit ==
    /\ mounted
    /\ props # AppState
    /\ props' = AppState
    /\ handDataRef' = IF props.handData # handData
                      THEN HandDataEffect(handDataRef, handData) ELSE handDataRef
    /\ IF props.settings # settings
       THEN /\ settingsRef' = SettingsEffect(settings).ref
            /\ drawRange' = SettingsEffect(settings).drawRange
       ELSE UNCHANGED <<settingsRef, drawRange>>
    /\ IF props.shape # currentShape
       THEN \E rnd \in [Slots -> AppDraws] :
               /\ targetPositions' = ShapeEffect(currentShape, positions, rnd).targets
               /\ positions' = ShapeEffect(currentShape, positions, rnd).positions
       ELSE UNCHANGED <<targetPositions, positions>>
    /\ UNCHANGED <<currentShape, handData, settings, mounted, velocities, frame, raised,
                   lastStep, nFrames, nHand, nUi, probe, lifecycle>>

\* requestAnimationFrame calls animate.
Animate ==
    /\ mounted
    /\ requestRef = "pending"
    /\ nFrames < MaxFrames
    /\ AnimateFrame

Next == Mount \/ SelectShape \/ ChangeSettings \/ OnResults \/ Commit \/ Animate

Spec == Init /\ [][Next]_vars

(***************************************************************************)
(* Properties of the application (Spec).                                   *)
(***************************************************************************)
Active(i) == i \in Slots /\ i < settingsRef.particleCount

\* C1: after any sequence of simulation steps every position and velocity component
\* of every active particle is a finite number, also when a hand is detected and a
\* particle lies exactly at the hand point.
C1_ActiveParticlesFinite ==
    \A i \in Slots : Active(i) => VFinite(positions[i]) /\ VFinite(velocities[i])

\* C2: a slot's position and velocity change only in an animation frame whose active
\* count (settingsRef.current.particleCount) exceeds the slot's index: a frame leaves
\* every slot at or beyond the active count unchanged, and a particle-count change
\* (a settings commit) changes no slot, so a slot resumes from its frozen values.
C2_InactiveSlotsFrozen ==
    [][(mounted /\ props'.shape = props.shape) =>
        \A i \in Slots :
            (positions'[i] # positions[i] \/ velocities'[i] # velocities[i])
                => (nFrames' = nFrames + 1 /\ i < settingsRef.particleCount)]_vars

\* The last frame ran with an active count below the capacity and left the last slot
\* at rest where it was, away from the target the frame read for it.
C2_Witness ==
    /\ nFrames >= 1
    /\ lastStep.settings.particleCount < MAX_PARTICLES
    /\ positions[MAX_PARTICLES - 1] # lastStep.targets[MAX_PARTICLES - 1]
    /\ velocities[MAX_PARTICLES - 1] = ZeroVec

\* C3: after the first shape assignment the shape-change handler replaces the targets
\* and leaves the position and velocity buffers unchanged, whatever the positions are.
C3_ShapeChangeKeepsBuffers ==
    [][(mounted /\ props'.shape # props.shape) =>
        (positions' = positions /\ velocities' = velocities)]_vars

\* C10 as claimed: every simulation step uses the HandData most recently delivered
\* by the tracker before the step started.
C10_StepUsesLatestDelivery ==
    nFrames > 0 => lastStep.hand = lastStep.delivered

\* C10, what the ref does guarantee: handDataRef.current changes only when React
\* commits, and then it takes the most recently delivered HandData (deliveries
\* superseded before the commit are skipped, none is queued); every simulation step
\* uses the value of handDataRef.current, the latest delivery as of the last commit.
C10_StepUsesLastCommitted ==
    [][/\ (props' # props) => handDataRef' = handData
       /\ (mounted /\ props' = props) => handDataRef' = handDataRef
       /\ (nFrames' # nFrames) => (lastStep'.hand = handDataRef /\ handDataRef = props.handData)]_vars

\* A step has used a committed detected hand while a newer delivery was not yet
\* committed.
C10_Witness ==
    /\ nFrames > 0
    /\ lastStep.hand.detected
    /\ lastStep.hand = lastStep.rendered
    /\ lastStep.delivered # lastStep.hand

\* C12: every simulation step reads its five settings from one published settings
\* value, the one of the last committed render, which the step leaves in place; and
\* the active count the step uses equals the draw range given to the renderer for
\* that frame.
C12_StepReadsOneSnapshot ==
    [][(nFrames' # nFrames) =>
        /\ lastStep'.settings = props.settings
        /\ \A field \in DOMAIN props.settings :
              lastStep'.settings[field] = settingsRef[field]
        /\ lastStep'.drawRange = lastStep'.settings.particleCount
        /\ drawRange' = lastStep'.drawRange
        /\ settingsRef' = settingsRef]_vars

\* A step has run on settings in which two sliders had been moved, while the draw
\* range was the whole buffer.
C12_Witness ==
    /\ nFrames > 0
    /\ lastStep.settings.particleCount # DefaultSettings.particleCount
    /\ lastStep.settings.forceStrength # DefaultSettings.forceStrength
    /\ lastStep.drawRange = lastStep.settings.particleCount

(***************************************************************************)
(* The simulator under fixed props (SpecStep): the canvas mounted with the *)
(* Sphere, then switched to another shape, so that the particles rest away *)
(* from their targets; the settings and the hand are props of the          *)
(* component, drawn here from StepSettings and StepHands, and only         *)
(* animation frames run.                                                   *)
(***************************************************************************)
StepSettings ==
    {[DefaultSettings EXCEPT !.particleCount = c, !.forceStrength = f] :
        c \in 1 .. MAX_PARTICLES, f \in {0, 250}}

StepHands ==
    {NoHand} \cup {[x |-> x, y |-> 50, gesture |-> g, detected |-> TRUE] :
                      x \in {68, 75}, g \in {"Open", "Fist"}}

InitStep ==
    \E shape \in ShapeTypes \ {"Sphere"}, hand \in StepHands, s \in StepSettings :
      \E rnd0 \in [Slots -> AppDraws], rnd1 \in [Slots -> AppDraws] :
        /\ currentShape = shape
        /\ handData = hand
        /\ settings = s
        /\ props = [shape |-> shape, settings |-> s, handData |-> hand]
        /\ mounted = TRUE
        /\ handDataRef = hand
        /\ settingsRef = s
        /\ targetPositions = generateShapePositions(shape, MAX_PARTICLES, rnd1)
        /\ positions = generateShapePositions("Sphere", MAX_PARTICLES, rnd0)
        /\ velocities = ZeroBuffer
        /\ drawRange = s.particleCount
        /\ frame = NoList
        /\ raised = FALSE
        /\ lastStep = NoStep
        /\ nFrames = 0
        /\ nHand = 0
        /\ nUi = 0
        /\ probe = NoProbe
        /\ requestRef = "pending"
        /\ camera = "started"
        /\ detector = "open"
        /\ inFlight = 0
        /\ nSent = 0

AnimateFree ==
    /\ mounted
    /\ requestRef = "pending"
    /\ nFrames < MaxFreeFrames
    /\ AnimateFrame

NextStep == AnimateFree

SpecStep == InitStep /\ [][NextStep]_vars

\* The squared distance between a position and its target, in units of 1/10000.
OffsetSq(p, t) ==
    LET e == VSub(t, p)
    IN WAdd(WAdd(WMul(e.x, e.x), WMul(e.y, e.y)), WMul(e.z, e.z))

RECURSIVE SumOffsetSq(_, _, _)
SumOffsetSq(pos, targets, n) ==
    IF n = 0 THEN 0
    ELSE WAdd(SumOffsetSq(pos, targets, n - 1), OffsetSq(pos[n - 1], targets[n - 1]))

\* The aggregate squared distance between the active positions and their targets.
Distance == SumOffsetSq(positions, targetPositions, settingsRef.particleCount)

\* A frame with no hand detected.
FreeFrame == nFrames' = nFrames + 1 /\ ~handDataRef.detected

\* Coordinate by coordinate: the velocity does not point away from the target.
Approaching(p, v, t) ==
    /\ VFinite(p) /\ VFinite(v)
    /\ (t.x - p.x) * v.x >= 0
    /\ (t.y - p.y) * v.y >= 0
    /\ (t.z - p.z) * v.z >= 0

\* Coordinate by coordinate: q is not beyond the target t as seen from p.
NotPast(p, q, t) ==
    /\ VFinite(q)
    /\ (t.x - p.x) * (t.x - q.x) >= 0
    /\ (t.y - p.y) * (t.y - q.y) >= 0
    /\ (t.z - p.z) * (t.z - q.z) >= 0

\* C4 as claimed: with no hand detected, fixed targets and the default damping and
\* returnSpeed, from rest away from the targets, every simulation step strictly
\* decreases the aggregate squared distance between active positions and targets.
C4_EveryStepDecreases ==
    [][(FreeFrame /\ Distance > 0) => Distance' < Distance]_vars

\* C4 as amended: such a step does not increase the aggregate squared distance, and
\* strictly decreases it when it moves a particle, as long as every active coordinate
\* is still approaching its target: its velocity does not point away from the target
\* and the step does not carry it past the target.
C4_DecreasesWhileApproaching ==
    [][(/\ FreeFrame
        /\ \A i \in Slots : Active(i) =>
              /\ Approaching(positions[i], velocities[i], targetPositions[i])
              /\ NotPast(positions[i], positions'[i], targetPositions[i]))
       => (/\ Distance' <= Distance
           /\ positions' # positions => Distance' < Distance)]_vars

\* Seven frames of a free run have brought every active particle closer to its target
\* and none has reached it yet.
C4_Witness ==
    /\ nFrames = 7
    /\ ~handDataRef.detected
    /\ Distance > 0
    /\ \A i \in Slots : Active(i) =>
          /\ Approaching(positions[i], velocities[i], targetPositions[i])
          /\ velocities[i] # ZeroVec

\* C5: with forceStrength = 0 and a hand detected (Open or Fist), the hand changes no
\* velocity: the step's result is that of the same step with no hand detected.
C5_ZeroForceIsNoHand ==
    [][(/\ nFrames' = nFrames + 1
        /\ settingsRef.forceStrength = 0
        /\ handDataRef.detected
        /\ handDataRef.gesture \in {"Open", "Fist"})
       => LET r == StepAll(positions, velocities, targetPositions, NoHand, settingsRef)
          IN positions' = r.positions /\ velocities' = r.velocities]_vars

(***************************************************************************)
(* The shape generator alone (SpecShape): one call of                      *)
(* generateShapePositions with any shape, any count up to the capacity and *)
(* any draws.                                                              *)
(***************************************************************************)
GenerateCall ==
    /\ probe.fn = "none"
    /\ \E type \in ShapeTypes, count \in 0 .. MAX_PARTICLES, rnd \in [Slots -> Draws] :
          probe' = [NoProbe EXCEPT !.fn = "generate", !.type = type, !.count = count,
                                   !.buffer = generateShapePositions(type, count, rnd)]
    /\ UNCHANGED <<currentShape, handData, settings, props, mounted, handDataRef,
                   settingsRef, targetPositions, positions, velocities, drawRange, frame,
                   raised, lastStep, nFrames, nHand, nUi, lifecycle>>

NextShape == GenerateCall

SpecShape == Init /\ [][NextShape]_vars

\* C6: for every shape and every count c <= MAX_PARTICLES the buffer has MAX_PARTICLES
\* slots, the first c hold points that are not the sentinel, the others the sentinel.
C6_SentinelLayout ==
    probe.fn = "generate" =>
        /\ DOMAIN probe.buffer = 0 .. (MAX_PARTICLES - 1)
        /\ \A i \in DOMAIN probe.buffer :
              /\ i < probe.count => (VFinite(probe.buffer[i]) /\ probe.buffer[i] # SentinelVec)
              /\ i >= probe.count => probe.buffer[i] = SentinelVec

\* A heart was generated for a count strictly between 0 and the capacity.
C6_Witness ==
    /\ probe.fn = "generate"
    /\ probe.type = "Heart"
    /\ 0 < probe.count /\ probe.count < MAX_PARTICLES
    /\ probe.buffer[0] # ZeroVec

(***************************************************************************)
(* The hand tracker alone (SpecGesture): the detector delivers one result, *)
(* well-formed or not, and then the same hand scaled around its wrist.     *)
(***************************************************************************)
LmPoints == {Pt(20 * a, 20 * b) : a \in 0 .. LmMax, b \in 0 .. 1}

GestureFrames ==
    {OneHand(Landmarks(w, k, t8, t12, t16, t20)) :
        w \in LmPoints, k \in LmPoints, t8 \in LmPoints, t12 \in LmPoints,
        t16 \in LmPoints, t20 \in LmPoints}

\* Results with no landmark list, an empty list, or a first hand of fewer than 21 points.
MalformedFrames ==
    {NoList, EmptyList} \cup
    {OneHand(SubSeq(OpenHandFrame.hands[1], 1, n)) : n \in {0, 5, 10, 13, 20}}

Invalid(results) ==
    \/ ~results.hasList
    \/ Len(results.hands) = 0
    \/ Len(results.hands[1]) < 21

ScalePoint(p, wrist, k) == Pt(wrist.x + k * (p.x - wrist.x), wrist.y + k * (p.y - wrist.y))

\* Every landmark of the first hand scaled by k around the wrist.
ScaleFrame(results, k) ==
    LET landmarks == results.hands[1]
    IN OneHand([i \in 1 .. Len(landmarks) |-> ScalePoint(landmarks[i], landmarks[1], k)])

FeedFrame ==
    /\ nHand = 0
    /\ \E results \in GestureFrames \cup MalformedFrames : HandleResults(results)
    /\ probe' = [NoProbe EXCEPT !.fn = "classify", !.scale = 1, !.base = handData'.gesture]
    /\ UNCHANGED lifecycle

FeedScaled ==
    /\ nHand = 1
    /\ ~Invalid(frame)
    /\ \E k \in 2 .. MaxScale : /\ HandleResults(ScaleFrame(frame, k))
                                /\ probe' = [probe EXCEPT !.scale = k]
    /\ UNCHANGED lifecycle

NextGesture == FeedFrame \/ FeedScaled

SpecGesture == Init /\ [][NextGesture]_vars

TipsAtWrist(results) ==
    /\ ~Invalid(results)
    /\ \A tipIdx \in Fingers : Lm(results.hands[1], tipIdx) = Lm(results.hands[1], 0)

\* C7 as claimed: when the four fingertips coincide with the wrist the classifier
\* returns Fist, whatever the position of landmark 9.
C7_TipsAtWristIsFist ==
    (nHand > 0 /\ TipsAtWrist(frame)) => handData.gesture = "Fist"

\* C7 as amended: when the four fingertips coincide with the wrist and landmark 9
\* does not, the classifier returns Fist.
C7_TipsAtWristIsFistUnlessNoPalm ==
    (nHand > 0 /\ TipsAtWrist(frame) /\ Lm(frame.hands[1], 9) # Lm(frame.hands[1], 0))
        => (~raised /\ handData.detected /\ handData.gesture = "Fist")

\* A hand with its fingertips at the wrist and landmark 9 elsewhere was classified.
C7_Witness ==
    /\ nHand = 1
    /\ TipsAtWrist(frame)
    /\ Lm(frame.hands[1], 9) # Lm(frame.hands[1], 0)
    /\ handData.gesture = "Fist"

C9_InvalidIsNoHand ==
    (nHand > 0 /\ Invalid(frame)) => (~raised /\ handData = NoHand)

(***************************************************************************)
(* Teardown (SpecStop): the mounted application with its camera loop, the  *)
(* detector and the frame loop, then the canvas cleanup and                *)
(* HandTracker.stop() in either order.                                     *)
(***************************************************************************)
\* The camera loop calls onFrame, which sends the video frame to the detector when
\* this.videoElement and this.hands are set; the loop awaits the send before its
\* next frame.
CameraFrame ==
    /\ camera = "started"
    /\ detector # "none"
    /\ inFlight = 0
    /\ nSent < MaxSends
    /\ inFlight' = 1
    /\ nSent' = nSent + 1
    /\ UNCHANGED <<currentShape, handData, settings, props, mounted, handDataRef,
                   settingsRef, targetPositions, positions, velocities, drawRange, frame,
                   raised, lastStep, nFrames, nHand, nUi, probe, requestRef, camera,
                   detector>>

\* The detector finishes a frame sent to it: it calls onResults.  What a closed
\* detector does with a frame is the library's affair: it calls onResults or drops
\* the frame.
DetectorResult ==
    /\ inFlight > 0
    /\ inFlight' = inFlight - 1
    /\ \/ \E results \in SampleResults : HandleResults(results)
       \/ /\ detector = "closed"
          /\ UNCHANGED <<currentShape, handData, settings, props, mounted, handDataRef,
                         settingsRef, targetPositions, positions, velocities, drawRange,
                         frame, raised, lastStep, nFrames, nHand, nUi>>
    /\ UNCHANGED <<probe, requestRef, camera, detector, nSent>>

\* The cleanup of the mount effect: cancelAnimationFrame(requestRef.current).
CanvasCleanup ==
    /\ mounted
    /\ requestRef = "pending"
    /\ requestRef' = "cancelled"
    /\ UNCHANGED <<currentShape, handData, settings, props, mounted, handDataRef,
                   settingsRef, targetPositions, positions, velocities, drawRange, frame,
                   raised, lastStep, nFrames, nHand, nUi, probe, camera, detector,
                   inFlight, nSent>>

\* HandTracker.stop(): the camera is left running (its stop is commented out) and
\* the detector is closed; this.hands keeps its reference.
TrackerStop ==
    /\ detector = "open"
    /\ detector' = "closed"
    /\ UNCHANGED <<currentShape, handData, settings, props, mounted, handDataRef,
                   settingsRef, targetPositions, positions, velocities, drawRange, frame,
                   raised, lastStep, nFrames, nHand, nUi, probe, requestRef, camera,
                   inFlight, nSent>>

NextStop ==
    Mount \/ CameraFrame \/ DetectorResult \/ Animate \/ CanvasCleanup \/ TrackerStop

SpecStop == Init /\ [][NextStop]_vars

\* The canvas cleanup and HandTracker.stop() have both run.
Stopped == requestRef = "cancelled" /\ detector = "closed"

\* C11: after the simulation is stopped no further simulation step runs, no further
\* video frame is sent to the detector and no further HandData update is delivered.
C11_StoppedIsQuiet ==
    [][Stopped => (nFrames' = nFrames /\ nSent' = nSent /\ nHand' = nHand)]_vars

\* C11, the frame loop alone: once the canvas cleanup has run no simulation step runs.
C11_NoStepAfterCleanup ==
    [][(requestRef = "cancelled") => (nFrames' = nFrames /\ positions' = positions
                                       /\ velocities' = velocities)]_vars

\* The simulation was stopped after it had run frames and received a hand, with no
\* frame outstanding at the detector.
C11_Witness ==
    /\ Stopped
    /\ nFrames > 0
    /\ nHand > 0
    /\ inFlight = 0

====
